---------------------------- MODULE Spec2Model ----------------------------
(***************************************************************************)
(* Model of src/src/App.js: the hierarchy builder (buildHierarchy,         *)
(* calcMakeup), the top-5 ranking memo and the record normalizer of the    *)
(* GDP Voronoi treemap.                                                    *)
(*                                                                         *)
(* JavaScript values are tagged tuples.  A number is an exact rational     *)
(* <<"number", n, d>> in lowest terms with d > 0 (binary floating-point    *)
(* rounding is not modelled); NaN, null and undefined are their own tags;  *)
(* a number beyond the checker's integers is <<"wide", hi, lo>>, that is   *)
(* hi * 10^6 + lo with lo a number in [0, 10^6);                           *)
(* a string that is not a numeric literal is <<"string", s>>; the string   *)
(* produced by toFixed is <<"fixed", neg, n, f>>: sign, the digits n and   *)
(* the number f of digits after the point.                                 *)
(* A country name is a sequence of text chunks, so that the template       *)
(* `Others (${cont})` and String.startsWith("Others (") are computed and   *)
(* not assumed; the empty sequence is the empty or absent name.  A         *)
(* continent name is a TLA+ string, "" when empty or absent.               *)
(***************************************************************************)
EXTENDS Integers, Sequences, FiniteSets, TLC

VARIABLES rows, selectedYear, selectedCountries, selectedContinents,
          hierarchyData, top5Countries, rendered,
          arg, called, result,
          component, toolTip, raised,
          processing, yearBounds, pending, mounted, notice

vars == <<rows, selectedYear, selectedCountries, selectedContinents,
          hierarchyData, top5Countries, rendered,
          arg, called, result,
          component, toolTip, raised,
          processing, yearBounds, pending, mounted, notice>>

\* the value of an encoder call
encoderVars == <<arg, called, result>>

\* which VoronoiTreemap is mounted, its tooltip and the exception of the
\* last handler
tipVars == <<component, toolTip, raised>>

\* the state of the CSV load
loadVars == <<processing, yearBounds, pending, mounted, notice>>

-----------------------------------------------------------------------------
(* JavaScript values and arithmetic *)

NaN == <<"NaN">>

Null == <<"null">>

Undefined == <<"undefined">>

Abs(i) == IF i < 0 THEN -i ELSE i

RECURSIVE GCD(_, _)
GCD(a, b) == IF b = 0 THEN a ELSE GCD(b, a % b)

\* the number n/d (d > 0), in lowest terms
Num(n, d) ==
    LET g == GCD(Abs(n), d) IN <<"number", n \div g, d \div g>>

Whole(n) == <<"number", n, 1>>

IsNumber(x) == x[1] = "number"

\* isNaN(x) for an x that is already a number or NaN
IsNaN(x) == x[1] = "NaN"

\* x + y
Add(x, y) ==
    IF ~IsNumber(x) \/ ~IsNumber(y) THEN NaN
    ELSE LET g == GCD(x[3], y[3])
         IN Num(x[2] * (y[3] \div g) + y[2] * (x[3] \div g), (x[3] \div g) * y[3])

\* x - y
Sub(x, y) ==
    IF ~IsNumber(x) \/ ~IsNumber(y) THEN NaN
    ELSE Add(x, <<"number", -y[2], y[3]>>)

\* x * y
Mul(x, y) ==
    IF ~IsNumber(x) \/ ~IsNumber(y) THEN NaN
    ELSE LET g1 == GCD(Abs(x[2]), y[3])
             g2 == GCD(Abs(y[2]), x[3])
         IN Num((x[2] \div g1) * (y[2] \div g2), (x[3] \div g2) * (y[3] \div g1))

\* x / y for y # 0 (every division of the modelled code has a nonzero divisor)
Div(x, y) ==
    IF ~IsNumber(x) \/ ~IsNumber(y) THEN NaN
    ELSE IF y[2] > 0 THEN Mul(x, <<"number", y[3], y[2]>>)
    ELSE Mul(x, <<"number", -y[3], -y[2]>>)

\* x < y; any comparison with NaN is false.  Integer parts are compared
\* first, so the cross product is only taken of the fractional parts.
Lt(x, y) ==
    /\ IsNumber(x)
    /\ IsNumber(y)
    /\ LET fx == x[2] \div x[3]
           fy == y[2] \div y[3]
       IN IF fx # fy THEN fx < fy
          ELSE (x[2] % x[3]) * y[3] < (y[2] % y[3]) * x[3]

Gt(x, y) == Lt(y, x)

\* x <= y
Le(x, y) == IsNumber(x) /\ IsNumber(y) /\ ~Lt(y, x)

RECURSIVE Pow10(_)
Pow10(k) == IF k = 0 THEN 1 ELSE 10 * Pow10(k - 1)

\* Number(v)
Number(v) ==
    CASE v[1] = "number" -> v
      [] v[1] = "NaN" -> NaN
      [] v[1] = "null" -> Whole(0)
      [] v[1] = "undefined" -> NaN
      [] v[1] = "string" -> IF v[2] = "" THEN Whole(0) ELSE NaN
      [] v[1] = "fixed" ->
            Num(IF v[2] THEN -v[3] ELSE v[3], Pow10(v[4]))
      [] v[1] = "wide" -> v

\* x || 0 for a number x: NaN and 0 are falsy
OrZero(x) == IF IsNumber(x) /\ x[2] # 0 THEN x ELSE Whole(0)

\* Number.prototype.toFixed(f): "NaN" for NaN, else the sign and the integer
\* closest to |x| * 10^f, the larger one on a tie
toFixed(x, f) ==
    IF ~IsNumber(x) THEN <<"string", "NaN">>
    ELSE LET p == Abs(x[2]) * Pow10(f)
         IN <<"fixed", x[2] < 0, (2 * p + x[3]) \div (2 * x[3]), f>>

\* record[key]: undefined when the record has no such property
Get(record, key) == IF key \in DOMAIN record THEN record[key] ELSE Undefined

\* a === b on two numbers: NaN equals nothing
StrictEq(a, b) == IsNumber(a) /\ IsNumber(b) /\ a = b

\* d3.sum(seq) of an array of numbers: NaN entries are skipped
RECURSIVE d3sum(_)
d3sum(values) ==
    IF values = <<>> THEN Whole(0)
    ELSE IF IsNumber(Head(values)) THEN Add(Head(values), d3sum(Tail(values)))
    ELSE d3sum(Tail(values))

\* d3.mean(seq) of an array of numbers: undefined when none is a number
d3mean(values) ==
    LET valid == SelectSeq(values, IsNumber)
    IN IF valid = <<>> THEN Undefined
       ELSE Div(d3sum(valid), Whole(Len(valid)))

-----------------------------------------------------------------------------
(* calcMakeup and buildHierarchy *)

TOP_9 == 9

SectorKeys ==
    <<"Agriculture (% GDP)", "Industry (% GDP)", "Service (% GDP)",
      "Export (% GDP)", "Import (% GDP)">>

\* fault seeded for C9: only a sum of exactly 0 yields the empty makeup
calcMakeup_zeroOnly(record) ==
    LET parts == [i \in 1..Len(SectorKeys) |->
                    OrZero(Number(Get(record, SectorKeys[i])))]
        sum == d3sum(parts)
    IN IF sum = Whole(0) THEN <<>>
       ELSE [i \in 1..Len(SectorKeys) |->
               <<SectorKeys[i], Mul(Div(parts[i], sum), Whole(100))>>]

\* calcMakeup(record): the entries <<label, percent>> of the returned object,
\* in insertion order; <<>> is the empty object
calcMakeup(record) ==
    LET parts == [i \in 1..Len(SectorKeys) |->
                    OrZero(Number(Get(record, SectorKeys[i])))]
        sum == d3sum(parts)
    IN IF Le(sum, Whole(0)) THEN <<>>
       ELSE [i \in 1..Len(SectorKeys) |->
               <<SectorKeys[i], Mul(Div(parts[i], sum), Whole(100))>>]

\* fault seeded for C5: GDP >= 0 in place of GDP > 0
inYear_allowsZero(r, year) ==
    /\ StrictEq(Number(r["Year"]), Number(year))
    /\ r["Country Name"] # <<>>
    /\ Le(Whole(0), Number(r["GDP"]))

\* the first filter of buildHierarchy: year, truthy country name, GDP > 0
inYear(r, year) ==
    /\ StrictEq(Number(r["Year"]), Number(year))
    /\ r["Country Name"] # <<>>
    /\ Gt(Number(r["GDP"]), Whole(0))

\* fault seeded for C6: the filters are applied even when they are empty
yearRowsOf_emptyExcludes(rs, year, countries, continents) ==
    SelectSeq(rs, LAMBDA r :
        /\ inYear(r, year)
        /\ r["Country Name"] \in countries
        /\ r["Continent Name"] \in continents)

\* yearRows of buildHierarchy after the country and continent filters
yearRowsOf(rs, year, countries, continents) ==
    LET r1 == SelectSeq(rs, LAMBDA r : inYear(r, year))
        r2 == IF Cardinality(countries) > 0
              THEN SelectSeq(r1, LAMBDA r : r["Country Name"] \in countries)
              ELSE r1
    IN IF Cardinality(continents) > 0
       THEN SelectSeq(r2, LAMBDA r : r["Continent Name"] \in continents)
       ELSE r2

\* the grouping key d["Continent Name"] || "Unknown"
contKey(d) == IF d["Continent Name"] # "" THEN d["Continent Name"] ELSE "Unknown"

\* the keys of d3.group(yearRows, contKey), in order of first appearance
RECURSIVE groupKeys(_, _)
groupKeys(yearRows, seen) ==
    IF yearRows = <<>> THEN <<>>
    ELSE LET k == contKey(Head(yearRows))
         IN IF k \in seen THEN groupKeys(Tail(yearRows), seen)
            ELSE <<k>> \o groupKeys(Tail(yearRows), seen \cup {k})

\* d3.group(yearRows, contKey): the entries <<cont, items>> of the map
byCont(yearRows) ==
    LET keys == groupKeys(yearRows, {})
    IN [i \in 1..Len(keys) |->
          <<keys[i], SelectSeq(yearRows, LAMBDA d : contKey(d) = keys[i])>>]

\* fault seeded for C3: the comparator sorts ascending
gdpBefore_ascending(a, b) == Lt(Number(a["GDP"]), Number(b["GDP"]))

\* the comparator (a, b) => Number(b.GDP) - Number(a.GDP) is negative
gdpBefore(a, b) == Lt(Number(b["GDP"]), Number(a["GDP"]))

\* one step of a stable sort: x goes before the first element it precedes
RECURSIVE insertSorted(_, _)
insertSorted(sorted, x) ==
    IF sorted = <<>> THEN <<x>>
    ELSE IF gdpBefore(x, Head(sorted)) THEN <<x>> \o sorted
    ELSE <<Head(sorted)>> \o insertSorted(Tail(sorted), x)

\* items.slice().sort(comparator): Array.prototype.sort is stable
RECURSIVE sortByGDP(_)
sortByGDP(items) ==
    IF items = <<>> THEN <<>>
    ELSE insertSorted(sortByGDP(SubSeq(items, 1, Len(items) - 1)), items[Len(items)])

\* Array.prototype.slice(from, to) with 0 <= from
slice(a, from, to) == SubSeq(a, from + 1, IF to < Len(a) THEN to ELSE Len(a))

\* fault seeded for C11: the aggregate carries the sums of the two rates
othersRecord_sums(year, cont, others) ==
    LET othersGDP == d3sum([i \in 1..Len(others) |-> OrZero(Number(others[i]["GDP"]))])
        sumUnemp == d3sum([i \in 1..Len(others) |->
                             OrZero(Number(others[i]["Unemployment"]))])
        sumInfl == d3sum([i \in 1..Len(others) |->
                            OrZero(Number(others[i]["Inflation Rate"]))])
    IN ("Year" :> year) @@ ("Country Name" :> <<"Others (", cont, ")">>)
       @@ ("Continent Name" :> cont) @@ ("GDP" :> othersGDP)
       @@ ("Unemployment" :> sumUnemp) @@ ("Inflation Rate" :> sumInfl)

\* the aggregate record pushed for the countries beyond the top 9
othersRecord(year, cont, others) ==
    LET othersGDP == d3sum([i \in 1..Len(others) |-> OrZero(Number(others[i]["GDP"]))])
        avgUnemp == d3mean([i \in 1..Len(others) |->
                              OrZero(Number(others[i]["Unemployment"]))])
        avgInfl == d3mean([i \in 1..Len(others) |->
                              OrZero(Number(others[i]["Inflation Rate"]))])
    IN ("Year" :> year) @@ ("Country Name" :> <<"Others (", cont, ")">>)
       @@ ("Continent Name" :> cont) @@ ("GDP" :> othersGDP)
       @@ ("Unemployment" :> avgUnemp) @@ ("Inflation Rate" :> avgInfl)

\* fault seeded for C2: the remainder starts one record too late
pickedOfGroup_skipsOne(year, cont, items) ==
    LET sorted == sortByGDP(items)
        top == slice(sorted, 0, TOP_9)
        others == slice(sorted, TOP_9 + 1, Len(sorted))
    IN IF Len(others) > 0 THEN top \o <<othersRecord(year, cont, others)>>
       ELSE top

\* fault seeded for C29: the nine smallest are kept and the largest folded
pickedOfGroup_foldsLargest(year, cont, items) ==
    LET sorted == sortByGDP(items)
        cut == IF Len(sorted) > TOP_9 THEN Len(sorted) - TOP_9 ELSE 0
        top == slice(sorted, cut, Len(sorted))
        others == slice(sorted, 0, cut)
    IN IF Len(others) > 0 THEN top \o <<othersRecord(year, cont, others)>>
       ELSE top

\* what one pass of the loop over byCont.entries() pushes onto picked
pickedOfGroup(year, cont, items) ==
    LET sorted == sortByGDP(items)
        top == slice(sorted, 0, TOP_9)
        others == slice(sorted, TOP_9, Len(sorted))
    IN IF Len(others) > 0 THEN top \o <<othersRecord(year, cont, others)>>
       ELSE top

RECURSIVE pickedOf(_, _)
pickedOf(year, groups) ==
    IF groups = <<>> THEN <<>>
    ELSE pickedOfGroup(year, Head(groups)[1], Head(groups)[2])
         \o pickedOf(year, Tail(groups))

\* fault seeded for C10: the prefix test is missing
startsWithOthers_never(name) == FALSE

\* String.prototype.startsWith("Others (")
startsWithOthers(name) == Len(name) > 0 /\ Head(name) = "Others ("

\* fault seeded for C25: every sector that is not negative becomes a slice
sliceEntries_keepsZero(r) ==
    SelectSeq(calcMakeup(r), LAMBDA e : Le(Whole(0), e[2]))

\* the entries of the makeup that become sector slices: pct > 0.0001
sliceEntries(r) ==
    SelectSeq(calcMakeup(r), LAMBDA e : Gt(e[2], Num(1, 10000)))

\* the callback of picked.map: one country node
countryNode(r) ==
    LET country ==
              ("name" :> r["Country Name"])
           @@ ("continent" :> contKey(r))
           @@ ("unemployment" :> toFixed(Number(Get(r, "Unemployment")), 0))
           @@ ("inflation" :> toFixed(Number(Get(r, "Inflation Rate")), 0))
           @@ ("service" :> toFixed(Number(Get(r, "Service (% GDP)")), 0))
           @@ ("import" :> toFixed(Number(Get(r, "Import (% GDP)")), 0))
           @@ ("export" :> toFixed(Number(Get(r, "Export (% GDP)")), 0))
           @@ ("agriculture" :> toFixed(Number(Get(r, "Agriculture (% GDP)")), 0))
           @@ ("industry" :> toFixed(Number(Get(r, "Industry (% GDP)")), 0))
           @@ ("gpdpercapita" :> toFixed(Number(Get(r, "GDP Per Capita")), 2))
           @@ ("education" :> toFixed(Number(Get(r, "Education Expenditure")), 0))
           @@ ("health" :> toFixed(Number(Get(r, "Health Expenditure")), 0))
        entries == sliceEntries(r)
    IN IF Len(entries) > 0 /\ ~startsWithOthers(country["name"])
       THEN country @@ ("children" :>
               [i \in 1..Len(entries) |->
                   [name |-> entries[i][1],
                    value |-> Mul(OrZero(Number(r["GDP"])),
                                  Div(entries[i][2], Whole(100)))]])
       ELSE country @@ ("value" :> OrZero(Number(r["GDP"])))

\* fault seeded for C4: the builder nests the countries under one group node
\* per continent
buildHierarchy_grouped(rs, year, countries, continents) ==
    LET groups == byCont(yearRowsOf(rs, year, countries, continents))
    IN [name |-> "World",
        children |->
            [g \in 1..Len(groups) |->
                LET picked == pickedOfGroup(year, groups[g][1], groups[g][2])
                IN [name |-> <<groups[g][1]>>,
                    children |-> [i \in 1..Len(picked) |-> countryNode(picked[i])]]]]

\* fault seeded for C12: no tree at all when no record passes the filter
buildHierarchy_nullWhenEmpty(rs, year, countries, continents) ==
    LET picked == pickedOf(year, byCont(yearRowsOf(rs, year, countries, continents)))
    IN IF picked = <<>> THEN Null
       ELSE [name |-> "World",
             children |-> [i \in 1..Len(picked) |-> countryNode(picked[i])]]

\* fault seeded for C22: a call made when the tree of these arguments is
\* already on the screen reads the records from the end, so the ties in GDP
\* fall the other way
buildHierarchy_orderByHistory(rs, year, countries, continents) ==
    LET tree(r) ==
            LET picked == pickedOf(year, byCont(yearRowsOf(r, year, countries, continents)))
            IN [name |-> "World",
                children |-> [i \in 1..Len(picked) |-> countryNode(picked[i])]]
        reversed == [i \in 1..Len(rs) |-> rs[Len(rs) + 1 - i]]
    IN IF rendered /\ hierarchyData = tree(rs) THEN tree(reversed) ELSE tree(rs)

buildHierarchy(rs, year, countries, continents) ==
    LET picked == pickedOf(year, byCont(yearRowsOf(rs, year, countries, continents)))
    IN [name |-> "World",
        children |-> [i \in 1..Len(picked) |-> countryNode(picked[i])]]

-----------------------------------------------------------------------------
(* the visual encoders: getInflationColor, getOpacity, numberConversion *)

\* Math.max and Math.min of two numbers
mathMax(a, b) == IF Lt(a, b) THEN b ELSE a

mathMin(a, b) == IF Lt(b, a) THEN b ELSE a

\* Math.abs of a number
mathAbs(x) == IF x[2] < 0 THEN <<"number", -x[2], x[3]>> ELSE x

\* v === null || v === undefined || isNaN(v)
isMissing(v) == v = Null \/ v = Undefined \/ IsNaN(Number(v))

\* fault seeded for C15: the intensity is not capped at 255
getInflationColor_unclamped(inflationRate) ==
    IF isMissing(inflationRate) THEN <<"#FFFFFF">>
    ELSE IF Lt(Number(inflationRate), Whole(0))
    THEN LET intensity == Mul(mathAbs(Number(inflationRate)), Whole(20))
         IN <<"rgb", Whole(255), Sub(Whole(255), intensity), Sub(Whole(255), intensity)>>
    ELSE LET intensity == Mul(Number(inflationRate), Whole(20))
         IN <<"rgb", Sub(Whole(255), intensity), Whole(255), Sub(Whole(255), intensity)>>

\* getInflationColor (lines 31-40 and, the same text, 719-728): "#FFFFFF" or
\* the channels of `rgb(r, g, b)`
getInflationColor(inflationRate) ==
    IF isMissing(inflationRate) THEN <<"#FFFFFF">>
    ELSE IF Lt(Number(inflationRate), Whole(0))
    THEN LET intensity ==
                 mathMin(Mul(mathAbs(Number(inflationRate)), Whole(20)), Whole(255))
         IN <<"rgb", Whole(255), Sub(Whole(255), intensity), Sub(Whole(255), intensity)>>
    ELSE LET intensity == mathMin(Mul(Number(inflationRate), Whole(20)), Whole(255))
         IN <<"rgb", Sub(Whole(255), intensity), Whole(255), Sub(Whole(255), intensity)>>

\* fault seeded for C13: the rate is not clamped to [BASE, MAX]
getOpacity_extrapolates(unemployment) ==
    IF isMissing(unemployment) THEN Num(1, 10)
    ELSE Add(Num(9, 10),
             Mul(Div(Sub(Number(unemployment), Whole(4)), Whole(11)),
                 Sub(Num(1, 10), Num(9, 10))))

\* getOpacity as defined at lines 42-53
getOpacity(unemployment) ==
    IF isMissing(unemployment) THEN Num(1, 10)
    ELSE LET BASE == Whole(4)
             MAX == Whole(15)
             BASE_OPACITY == Num(9, 10)
             MAX_OPACITY == Num(1, 10)
             unemployment_ == Number(unemployment)
             opacity == mathMax(BASE, mathMin(MAX, unemployment_))
         IN Add(BASE_OPACITY,
                Mul(Div(Sub(opacity, BASE), Sub(MAX, BASE)),
                    Sub(MAX_OPACITY, BASE_OPACITY)))

\* getOpacity as defined again at lines 730-734
getOpacity_730(unemployment) ==
    IF isMissing(unemployment) THEN Num(1, 2)
    ELSE LET employment == Sub(Whole(100), Number(unemployment))
         IN mathMax(Num(3, 10), mathMin(Whole(1), Div(employment, Whole(100))))

Million == 1000000

\* the limbs of a number x >= 0
limbs(x) ==
    IF x[1] = "wide" THEN x
    ELSE LET hi == (x[2] \div x[3]) \div Million
         IN <<"wide", hi, Sub(x, Whole(hi * Million))>>

\* w >= hi * 10^6 + lo and w <= hi * 10^6 + lo, for an integer lo < 10^6
atLeast(w, hi, lo) == w[2] > hi \/ (w[2] = hi /\ Le(Whole(lo), w[3]))

atMost(w, hi, lo) == w[2] < hi \/ (w[2] = hi /\ Le(w[3], Whole(lo)))

\* (w / (p * 10^6)).toFixed(2) for p = 1, 10^3 or 10^6: the hundredths are
\* w / (p * 10^4) rounded, the larger one on a tie
quotientToFixed2(w, p) ==
    IF p = 1
    THEN <<"fixed", FALSE, w[2] * 100 + toFixed(Div(w[3], Whole(10000)), 0)[3], 2>>
    ELSE LET q == p \div 100
         IN <<"fixed", FALSE, (w[2] + q \div 2) \div q, 2>>

\* numberConversion (lines 67-76 and, the same text, 751-760): the text
\* toFixed(2) + unit, or undefined when no branch returns
numberConversion(number) ==
    LET x == Number(number)
    IN IF ~(x[1] = "wide" \/ (IsNumber(x) /\ x[2] >= 0)) THEN Undefined
       ELSE LET w == limbs(x)
            IN IF atLeast(w, 1, 0) /\ atMost(w, 999, 999999)
               THEN <<"text", quotientToFixed2(w, 1), "M">>
               ELSE IF atLeast(w, 1000, 0) /\ atMost(w, 999999, 999999)
               THEN <<"text", quotientToFixed2(w, 1000), "B">>
               ELSE IF atLeast(w, Million, 0) /\ atMost(w, 999999999, 999999)
               THEN <<"text", quotientToFixed2(w, Million), "T">>
               ELSE Undefined

-----------------------------------------------------------------------------
(* the memos of the component *)

\* fault seeded for C7: the ranking forgets the continent filter
top5Filtered_noContinent(rs, year, countries, continents) ==
    LET f1 == SelectSeq(rs, LAMBDA r :
                  /\ StrictEq(Number(r["Year"]), Number(year))
                  /\ r["Country Name"] # <<>>
                  /\ Gt(Number(r["GDP"]), Whole(0)))
    IN IF Cardinality(countries) > 0
       THEN SelectSeq(f1, LAMBDA r : r["Country Name"] \in countries)
       ELSE f1

\* filteredRows of the top5Countries memo, before it is sorted
top5Filtered(rs, year, countries, continents) ==
    LET f1 == SelectSeq(rs, LAMBDA r :
                  /\ StrictEq(Number(r["Year"]), Number(year))
                  /\ r["Country Name"] # <<>>
                  /\ Gt(Number(r["GDP"]), Whole(0)))
        f2 == IF Cardinality(countries) > 0
              THEN SelectSeq(f1, LAMBDA r : r["Country Name"] \in countries)
              ELSE f1
    IN IF Cardinality(continents) > 0
       THEN SelectSeq(f2, LAMBDA r : r["Continent Name"] \in continents)
       ELSE f2

\* fault seeded for C21: the ranking takes the first five without sorting
top5CountriesOf_firstFive(rs, year, countries, continents) ==
    IF Len(rs) = 0 THEN <<>>
    ELSE LET first == slice(top5Filtered(rs, year, countries, continents), 0, 5)
         IN [i \in 1..Len(first) |->
               [name |-> first[i]["Country Name"],
                continent |-> first[i]["Continent Name"],
                gdp |-> Number(first[i]["GDP"])]]

top5CountriesOf(rs, year, countries, continents) ==
    IF Len(rs) = 0 THEN <<>>
    ELSE LET sorted == sortByGDP(top5Filtered(rs, year, countries, continents))
             first == slice(sorted, 0, 5)
         IN [i \in 1..Len(first) |->
               [name |-> first[i]["Country Name"],
                continent |-> first[i]["Continent Name"],
                gdp |-> Number(first[i]["GDP"])]]

hierarchyDataOf(rs, year, countries, continents) ==
    IF Len(rs) = 0 THEN Null
    ELSE buildHierarchy(rs, year, countries, continents)

\* the normalizer of the parser's complete callback (parsedData / coerced)
normalize(r) ==
       ("Year" :> Number(Get(r, "Year")))
    @@ ("GDP" :> Number(Get(r, "GDP")))
    @@ ("Unemployment" :>
          IF Get(r, "Unemployment") # <<"string", "">>
          THEN Number(Get(r, "Unemployment")) ELSE Null)
    @@ ("Inflation Rate" :>
          IF Get(r, "Inflation Rate") # <<"string", "">>
          THEN Number(Get(r, "Inflation Rate")) ELSE Null)
    @@ r

parsedData(data) == [i \in 1..Len(data) |-> normalize(data[i])]

\* the Years of the rows that are numbers
yearsOf(rs) ==
    SelectSeq([i \in 1..Len(rs) |-> rs[i]["Year"]], LAMBDA y : ~IsNaN(y))

\* Math.min(...years) and Math.max(...years) of a non-empty array
minOf(years) ==
    CHOOSE y \in {years[i] : i \in 1..Len(years)} :
        \A i \in 1..Len(years) : ~Lt(years[i], y)

maxOf(years) ==
    CHOOSE y \in {years[i] : i \in 1..Len(years)} :
        \A i \in 1..Len(years) : ~Lt(y, years[i])

\* the year bounds after a load, given those before it
boundsOf(rs, bounds) ==
    IF Len(yearsOf(rs)) > 0
    THEN <<minOf(yearsOf(rs)), maxOf(yearsOf(rs))>>
    ELSE bounds

\* node.value as d3.hierarchy(...).sum((d) => d.value || 0) leaves it on a
\* country node: its own value plus the values of its slices
nodeValue(d) ==
    Add(OrZero(Number(Get(d, "value"))),
        IF "children" \in DOMAIN d
        THEN d3sum([i \in 1..Len(d.children) |->
                       OrZero(Number(d.children[i].value))])
        ELSE Whole(0))

\* v ?? "N/A"
orNA(v) == IF v = Null \/ v = Undefined THEN <<"string", "N/A">> ELSE v

\* the values interpolated into the tooltip's html, given the text of the GDP
tooltipHtml(d, gdp) ==
    <<d.name, gdp, orNA(Get(d, "gpdpercapita")), orNA(Get(d, "agriculture")),
      orNA(Get(d, "service")), orNA(Get(d, "industry")),
      orNA(Get(d, "inflation")), orNA(Get(d, "unemployment"))>>

-----------------------------------------------------------------------------
(* the inputs: parsed CSV files and filter states *)

\* at most TOP_9 + MaxOthers rows of the large continent besides the free row
MaxOthers == 1

BulkNames ==
    <<"China", "India", "Indonesia", "Iran", "Israel", "Malaysia",
      "Saudi Arabia", "South Korea", "Thailand", "Turkey", "Vietnam", "Yemen">>

Years == {2000, 2001}

Continents == {"Asia", "Europe"}

\* the five sector columns of a row, as the parser delivers them
\* (dynamicTyping: a number, null for an empty field, or the text)
SectorProfiles ==
    [plain      |-> <<Whole(10), Whole(30), Whole(50), Whole(20), Whole(25)>>,
     zero       |-> <<Whole(0), Whole(30), Whole(50), Whole(20), Whole(0)>>,
     negative   |-> <<Whole(-10), Whole(60), Whole(50), Whole(0), Whole(0)>>,
     negligible |-> <<Num(1, 25000), Whole(0), Whole(40), Whole(0), Whole(0)>>,
     missing    |-> <<Null, <<"string", "n/a">>, Undefined, Whole(0), Null>>,
     negsum     |-> <<Whole(-5), Whole(0), Whole(0), Whole(0), Whole(3)>>]

\* one raw row of the file; an undefined cell is a missing key
rawRow(year, name, continent, gdp, unemployment, inflation, sectors) ==
    LET present == {i \in 1..Len(SectorKeys) : sectors[i] # Undefined}
    IN    ("Year" :> Whole(year)) @@ ("Country Name" :> name)
       @@ ("Continent Name" :> continent) @@ ("GDP" :> gdp)
       @@ ("Unemployment" :> unemployment) @@ ("Inflation Rate" :> inflation)
       @@ ("GDP Per Capita" :> Whole(1200))
       @@ ("Education Expenditure" :> Whole(4))
       @@ ("Health Expenditure" :> Null)
       @@ [k \in {SectorKeys[i] : i \in present} |->
             sectors[CHOOSE i \in present : SectorKeys[i] = k]]

\* the i-th row of the large continent: GDPs rise through the file in tied
\* pairs, so sorting reorders them and the cutoff can fall between equals
bulkRow(i) ==
    rawRow(2000, <<BulkNames[i]>>, "Asia", Whole((i + 1) \div 2),
           IF i % 3 = 0 THEN Null ELSE Whole(i), Whole(i - 4),
           SectorProfiles.plain)

FreeNames == {<<>>, <<"Cyprus">>, <<"Others (", "Asia", ")">>}

\* the free row's GDP cell and sector cells: a usable GDP with each sector
\* profile, and an unusable GDP (zero, or text that is no number)
FreeCells ==
    ({Whole(1)} \X DOMAIN SectorProfiles)
        \cup ({Whole(0), <<"string", "n/a">>} \X {"plain"})

\* the files: n rows of the large continent followed by one free row
Files ==
    { [i \in 1..n |-> bulkRow(i)]
        \o <<rawRow(year, name, continent, cells[1], Whole(7), Whole(2),
                    SectorProfiles[cells[2]])>> :
        n \in (TOP_9 - 1)..(TOP_9 + MaxOthers),
        year \in Years, name \in FreeNames, continent \in Continents \cup {""},
        cells \in FreeCells }

\* the country filters tried on a file: none, the free row's country, the
\* large continent's countries, or both
CountryFilters(rs) ==
    LET bulk == {rs[i]["Country Name"] : i \in 1..(Len(rs) - 1)}
        free == {rs[Len(rs)]["Country Name"]} \ {<<>>}
    IN {{}, free, bulk, bulk \cup free}

ContinentFilters == SUBSET Continents

-----------------------------------------------------------------------------------------------------------------------------------------------------
(* the state machine: a filter state over a loaded file, and the render pass
   that recomputes the two memos from it *)

\* no encoder has been called on a value
NoCall == arg = Undefined /\ called = "" /\ result = Undefined

\* the tooltip as created on mount: empty and transparent
NoTip == toolTip = [html |-> <<>>, opacity |-> 0] /\ raised = ""

\* the load that delivered the rows rs is over: nothing is in flight
Loaded(rs) ==
    /\ processing = FALSE
    /\ yearBounds = boundsOf(rs, <<Whole(2000), Whole(2022)>>)
    /\ pending = <<>>
    /\ mounted = TRUE
    /\ notice = {}

Init ==
    /\ rows \in {parsedData(f) : f \in Files}
    /\ selectedYear \in {Whole(y) : y \in Years}
    /\ selectedCountries \in CountryFilters(rows)
    /\ selectedContinents \in ContinentFilters
    /\ hierarchyData = Null
    /\ top5Countries = <<>>
    /\ rendered = FALSE
    /\ NoCall
    /\ component = 156
    /\ NoTip
    /\ Loaded(rows)

\* fault seeded for C23: the ranking sorts the shared array itself
inputsAfterMemos_sortsInPlace(rs, countries, continents) ==
    <<sortByGDP(rs), countries, continents>>

\* the array and the two sets as the two memos leave them: rows.filter
\* returns a new array, both sorts act on a copy (items.slice().sort, and
\* filteredRows.sort on the array filter returned), and of the sets only
\* size and has are used
inputsAfterMemos(rs, countries, continents) == <<rs, countries, continents>>

\* both useMemo callbacks run on the records and the filter state given
recompute(rs, year, countries, continents) ==
    LET after == inputsAfterMemos(rs, countries, continents)
    IN /\ hierarchyData' = hierarchyDataOf(rs, year, countries, continents)
       /\ top5Countries' = top5CountriesOf(rs, year, countries, continents)
       /\ rows' = after[1]
       /\ selectedCountries' = after[2]
       /\ selectedContinents' = after[3]

\* one render pass: both useMemo callbacks run on the current state
Render ==
    /\ ~rendered
    /\ rendered' = TRUE
    /\ recompute(rows, selectedYear, selectedCountries, selectedContinents)
    /\ UNCHANGED selectedYear
    /\ UNCHANGED <<encoderVars, tipVars, loadVars>>

Next == Render

Spec == Init /\ [][Next]_vars

-----------------------------------------------------------------------------
(* the encoders applied to single values *)

\* the rates tried are the multiples of 1/2 up to MaxRate in magnitude
MaxRate == 20

\* what a node hands to the encoders is the text of toFixed(0)
RateArgs ==
    {Num(k, 2) : k \in (-2 * MaxRate)..(2 * MaxRate)}
        \cup {toFixed(Whole(k), 0) : k \in {-13, -3, 0, 5, 9, 15}}

MissingArgs == {Null, Undefined, NaN, <<"string", "NaN">>, <<"string", "n/a">>}

\* amounts around every threshold of numberConversion
AmountArgs ==
    {Whole(-5), Whole(0), Whole(500), Whole(999999), Num(1999999, 2),
     Whole(Million), Whole(2500000), Num(12345678, 10), Whole(999999999),
     Num(1999999999, 2), Whole(1000 * Million),
     <<"wide", 3000, Whole(0)>>, <<"wide", 3004, Whole(999999)>>,
     <<"wide", 999999, Whole(999999)>>, <<"wide", 999999, Num(1999999, 2)>>,
     <<"wide", Million, Whole(0)>>, <<"wide", 2500000, Whole(0)>>,
     <<"wide", 999999999, Whole(999999)>>, <<"wide", 1000 * Million, Whole(0)>>,
     <<"wide", 2000 * Million, Whole(1)>>}

EncoderInit ==
    /\ rows = <<>>
    /\ selectedYear = Whole(2000)
    /\ selectedCountries = {}
    /\ selectedContinents = {}
    /\ hierarchyData = Null
    /\ top5Countries = <<>>
    /\ rendered = FALSE
    /\ arg \in RateArgs \cup MissingArgs \cup AmountArgs
    /\ called = ""
    /\ result = Undefined
    /\ component = 156
    /\ NoTip
    /\ Loaded(rows)

\* one call of an encoder on the value
Call(name, value) ==
    /\ called = ""
    /\ called' = name
    /\ result' = value
    /\ UNCHANGED <<rows, selectedYear, selectedCountries, selectedContinents,
                   hierarchyData, top5Countries, rendered, arg>>
    /\ UNCHANGED <<tipVars, loadVars>>

CallGetInflationColor ==
    /\ arg \in RateArgs \cup MissingArgs
    /\ Call("getInflationColor", getInflationColor(arg))

CallGetOpacity ==
    /\ arg \in RateArgs \cup MissingArgs
    /\ Call("getOpacity", getOpacity(arg))

CallGetOpacity_730 ==
    /\ arg \in RateArgs \cup MissingArgs
    /\ Call("getOpacity_730", getOpacity_730(arg))

CallNumberConversion ==
    /\ arg \in AmountArgs \cup MissingArgs
    /\ Call("numberConversion", numberConversion(arg))

EncoderNext ==
    \/ CallGetInflationColor
    \/ CallGetOpacity
    \/ CallGetOpacity_730
    \/ CallNumberConversion

EncoderSpec == EncoderInit /\ [][EncoderNext]_vars

-----------------------------------------------------------------------------
(* the tooltip of the rendered nodes, in either component *)

\* the two VoronoiTreemap components of the file, by the line that defines
\* them
Components == {156, 841}

\* GDPs below and within the units of numberConversion
TooltipGDPs == {Whole(0), Whole(500), Whole(2500000), Whole(1350000000)}

TooltipFiles ==
    { <<rawRow(2000, <<"Cyprus">>, "Europe", gdp, Whole(7), Whole(2),
               SectorProfiles[sectors]),
        rawRow(2000, <<"Malta">>, "Europe", Whole(3500000), Null, Whole(-3),
               SectorProfiles.zero)>> :
        gdp \in TooltipGDPs, sectors \in {"plain", "zero", "missing", "negsum"} }

TooltipInit ==
    /\ rows \in {parsedData(f) : f \in TooltipFiles}
    /\ selectedYear = Whole(2000)
    /\ selectedCountries = {}
    /\ selectedContinents = {}
    /\ hierarchyData = Null
    /\ top5Countries = <<>>
    /\ rendered = FALSE
    /\ NoCall
    /\ component \in Components
    /\ NoTip
    /\ Loaded(rows)

\* the fill opacity the render effect gives the cell of a country node:
\* getOpacity(country.unemployment), with the getOpacity of the component
fillOpacity(country) ==
    IF component = 156 THEN getOpacity(Get(country, "unemployment"))
    ELSE getOpacity_730(Get(country, "unemployment"))

\* the mouseover handler of the k-th country node as component 156 defines
\* it (lines 356-366): the GDP is the value of numberConversion as it is
mouseover_156(k) ==
    LET node == hierarchyData.children[k]
    IN /\ toolTip' = [html |-> tooltipHtml(node, numberConversion(nodeValue(node))),
                      opacity |-> 1]
       /\ raised' = ""

\* the handler as component 841 defines it (lines 1049-1059): toLocaleString
\* is called on the value of numberConversion, a TypeError when it is
\* undefined
mouseover_841(k) ==
    LET node == hierarchyData.children[k]
        text == numberConversion(nodeValue(node))
    IN IF text = Undefined
       THEN raised' = "TypeError" /\ UNCHANGED toolTip
       ELSE /\ toolTip' = [html |-> tooltipHtml(node, text), opacity |-> 1]
            /\ raised' = ""

Mouseover ==
    /\ rendered
    /\ Len(rows) > 0
    /\ \E k \in DOMAIN hierarchyData.children :
          IF component = 156 THEN mouseover_156(k) ELSE mouseover_841(k)
    /\ UNCHANGED <<rows, selectedYear, selectedCountries, selectedContinents,
                   hierarchyData, top5Countries, rendered, component>>
    /\ UNCHANGED <<encoderVars, loadVars>>

Mouseleave ==
    /\ rendered
    /\ Len(rows) > 0
    /\ hierarchyData.children # <<>>
    /\ toolTip' = [toolTip EXCEPT !.opacity = 0]
    /\ raised' = ""
    /\ UNCHANGED <<rows, selectedYear, selectedCountries, selectedContinents,
                   hierarchyData, top5Countries, rendered, component>>
    /\ UNCHANGED <<encoderVars, loadVars>>

TooltipNext ==
    \/ Render
    \/ Mouseover
    \/ Mouseleave

TooltipSpec == TooltipInit /\ [][TooltipNext]_vars

-----------------------------------------------------------------------------
(* the CSV load: loadCSV on mount in component 156, onFile in component 841 *)

\* at most MaxPending parses are in flight at once
MaxPending == 2

\* what the parser delivers for the cell of a rate under dynamicTyping: a
\* number, null for an empty field, the text of a field that is no number
\* (the empty text itself never comes out of the parser, yet the normalizer
\* tests for it), or nothing when the row is short of the column
RawCells ==
    <<Whole(5), Whole(0), Null, <<"string", "">>, <<"string", "n/a">>, Undefined>>

loadRow(year, unemployment, inflation) ==
    [rawRow(2000, <<"Cyprus">>, "Europe", Whole(1), unemployment, inflation,
            SectorProfiles.plain) EXCEPT !["Year"] = year]

\* the files: an empty one, one whose only Year is no number, and six of
\* two rows, the later year first, with each raw cell in each rate
LoadFiles ==
    {<<>>, <<loadRow(<<"string", "n/a">>, Whole(5), Whole(5))>>}
        \cup { <<loadRow(Whole(2001), RawCells[k], RawCells[(k % Len(RawCells)) + 1]),
                 rawRow(2000, <<"Malta">>, "Asia", Whole(2), Whole(3), Whole(-1),
                        SectorProfiles.zero)>> : k \in 1..Len(RawCells) }

\* a parse in flight: the parser will deliver its data to complete, or will
\* call error when the file cannot be fetched or read
Parses ==
    {[readable |-> TRUE, data |-> f] : f \in LoadFiles}
        \cup {[readable |-> FALSE, data |-> <<>>]}

\* the sequence without its i-th element
without(seq, i) == SubSeq(seq, 1, i - 1) \o SubSeq(seq, i + 1, Len(seq))

LoadInit ==
    /\ rows = <<>>
    /\ selectedYear = Whole(2000)
    /\ selectedCountries = {}
    /\ selectedContinents = {}
    /\ hierarchyData = Null
    /\ top5Countries = <<>>
    /\ rendered = TRUE
    /\ NoCall
    /\ component \in Components
    /\ NoTip
    /\ processing = FALSE
    /\ yearBounds = <<Whole(2000), Whole(2022)>>
    /\ pending = <<>>
    /\ mounted = FALSE
    /\ notice = {}

\* the mount effect of component 156: loadCSV starts the one parse
loadCSV ==
    /\ component = 156
    /\ ~mounted
    /\ mounted' = TRUE
    /\ processing' = TRUE
    /\ \E p \in Parses : pending' = Append(pending, p)
    /\ UNCHANGED <<rows, selectedYear, selectedCountries, selectedContinents,
                   hierarchyData, top5Countries, rendered, yearBounds, notice>>
    /\ UNCHANGED <<encoderVars, tipVars>>

\* onFile of component 841, a file having been chosen
onFile ==
    /\ component = 841
    /\ Len(pending) < MaxPending
    /\ processing' = TRUE
    /\ \E p \in Parses : pending' = Append(pending, p)
    /\ UNCHANGED <<rows, selectedYear, selectedCountries, selectedContinents,
                   hierarchyData, top5Countries, rendered, yearBounds, mounted,
                   notice>>
    /\ UNCHANGED <<encoderVars, tipVars>>

\* the error callback of the i-th parse: console.error in both components,
\* alert in component 841 only
fail(i) ==
    /\ ~pending[i].readable
    /\ pending' = without(pending, i)
    /\ processing' = FALSE
    /\ notice' = IF component = 841 THEN {"console", "alert"} ELSE {"console"}
    /\ UNCHANGED <<rows, selectedYear, selectedCountries, selectedContinents,
                   hierarchyData, top5Countries, rendered, yearBounds, mounted>>
    /\ UNCHANGED <<encoderVars, tipVars>>

\* the complete callback of the i-th parse, and the render that follows it
complete(i) ==
    /\ pending[i].readable
    /\ pending' = without(pending, i)
    /\ rows' = parsedData(pending[i].data)
    /\ yearBounds' = boundsOf(rows', yearBounds)
    /\ selectedYear' = IF Len(yearsOf(rows')) > 0
                       THEN minOf(yearsOf(rows')) ELSE selectedYear
    /\ IF component = 841
       THEN selectedCountries' = {} /\ selectedContinents' = {}
       ELSE UNCHANGED <<selectedCountries, selectedContinents>>
    /\ processing' = FALSE
    /\ hierarchyData' = hierarchyDataOf(rows', selectedYear', selectedCountries',
                                        selectedContinents')
    /\ top5Countries' = top5CountriesOf(rows', selectedYear', selectedCountries',
                                        selectedContinents')
    /\ UNCHANGED <<rendered, mounted, notice>>
    /\ UNCHANGED <<encoderVars, tipVars>>

\* the parser settles the parses in flight, in any order
Complete == \E i \in DOMAIN pending : complete(i)

Fail == \E i \in DOMAIN pending : fail(i)

\* the year slider, within the bounds (of the model's years)
SetSelectedYear ==
    /\ \E y \in Years :
          /\ Le(yearBounds[1], Whole(y)) /\ Le(Whole(y), yearBounds[2])
          /\ selectedYear' = Whole(y)
    /\ hierarchyData' = hierarchyDataOf(rows, selectedYear', selectedCountries,
                                        selectedContinents)
    /\ top5Countries' = top5CountriesOf(rows, selectedYear', selectedCountries,
                                        selectedContinents)
    /\ UNCHANGED <<rows, selectedCountries, selectedContinents, rendered>>
    /\ UNCHANGED <<encoderVars, tipVars, loadVars>>

LoadNext ==
    \/ loadCSV
    \/ onFile
    \/ Complete
    \/ Fail
    \/ SetSelectedYear

LoadSpec == LoadInit /\ [][LoadNext]_vars

-----------------------------------------------------------------------------
(* the filter panel: the continent and country checkboxes, Select All and
   Clear All, each followed by the render that recomputes the memos *)

\* continentCountryMap: the countries listed under each continent, taken
\* from the rows that have both a continent and a country name
continentCountryMap(rs) ==
    LET listed == {i \in 1..Len(rs) :
                      rs[i]["Continent Name"] # "" /\ rs[i]["Country Name"] # <<>>}
    IN [continent \in {rs[i]["Continent Name"] : i \in listed} |->
          {rs[i]["Country Name"] :
              i \in {j \in listed : rs[j]["Continent Name"] = continent}}]

availableContinents(rs) == DOMAIN continentCountryMap(rs)

\* the rows of the panel's files: three countries of Asia, two of Europe
PanelRows ==
    <<rawRow(2000, <<"China">>, "Asia", Whole(9), Whole(4), Whole(2),
             SectorProfiles.plain),
      rawRow(2000, <<"Cyprus">>, "Europe", Whole(3), Null, Whole(1),
             SectorProfiles.zero),
      rawRow(2000, <<"India">>, "Asia", Whole(7), Whole(6), Whole(-2),
             SectorProfiles.plain),
      rawRow(2001, <<"India">>, "Asia", Whole(8), Whole(6), Whole(3),
             SectorProfiles.plain),
      rawRow(2000, <<"Malta">>, "Europe", Whole(3), Whole(0), Whole(0),
             SectorProfiles.missing),
      rawRow(2000, <<"Iran">>, "Asia", Whole(0), Whole(11), Whole(30),
             SectorProfiles.plain),
      rawRow(2001, <<"Malta">>, "Europe", Whole(5), Whole(0), Whole(0),
             SectorProfiles.plain)>>

\* the files: those rows alone, or followed by a country that has no
\* continent, in one year or in both
PanelFiles ==
    {PanelRows,
     PanelRows \o <<rawRow(2000, <<"Yemen">>, "", Whole(6), Whole(13), Whole(9),
                          SectorProfiles.plain)>>,
     PanelRows \o <<rawRow(2000, <<"Yemen">>, "", Whole(6), Whole(13), Whole(9),
                          SectorProfiles.plain),
                   rawRow(2001, <<"Yemen">>, "", Whole(2), Null, Whole(9),
                          SectorProfiles.negligible)>>}

PanelInit ==
    /\ rows \in {parsedData(f) : f \in PanelFiles}
    /\ selectedYear \in {Whole(y) : y \in Years}
    /\ selectedCountries = {}
    /\ selectedContinents = {}
    /\ hierarchyData = Null
    /\ top5Countries = <<>>
    /\ rendered = FALSE
    /\ NoCall
    /\ component = 156
    /\ NoTip
    /\ Loaded(rows)

\* a handler of the panel has set the two sets
setSelection(countries, continents) ==
    /\ rendered
    /\ recompute(rows, selectedYear, countries, continents)
    /\ UNCHANGED <<selectedYear, rendered>>
    /\ UNCHANGED <<encoderVars, tipVars, loadVars>>

\* the two buttons, drawn when there are rows
SelectAll ==
    /\ Len(rows) > 0
    /\ setSelection(UNION {continentCountryMap(rows)[c] : c \in availableContinents(rows)},
                    availableContinents(rows))

ClearAll ==
    /\ Len(rows) > 0
    /\ setSelection({}, {})

\* fault seeded for C26: unchecking the box removes the continent alone
continentChange_keepsCountries(continent) ==
    LET countries == continentCountryMap(rows)[continent]
        continentSelected ==
            continent \in selectedContinents \/ countries \subseteq selectedCountries
    IN IF ~continentSelected
       THEN setSelection(selectedCountries \cup countries,
                         selectedContinents \cup {continent})
       ELSE setSelection(selectedCountries, selectedContinents \ {continent})

\* onChange of a continent's checkbox: the box shows continentSelected and
\* the event carries the opposite
continentChange(continent) ==
    LET countries == continentCountryMap(rows)[continent]
        continentSelected ==
            continent \in selectedContinents \/ countries \subseteq selectedCountries
    IN IF ~continentSelected
       THEN setSelection(selectedCountries \cup countries,
                         selectedContinents \cup {continent})
       ELSE setSelection(selectedCountries \ countries,
                         selectedContinents \ {continent})

\* onChange of the checkbox of a country listed under the continent: the
\* box shows the membership in selectedCountries
countryChange(continent, country) ==
    LET countries == continentCountryMap(rows)[continent]
        selectedCountriesInContinent == countries \cap selectedCountries
    IN IF country \notin selectedCountries
       THEN setSelection(selectedCountries \cup {country},
                         IF Cardinality(selectedCountriesInContinent) + 1
                               = Cardinality(countries)
                         THEN selectedContinents \cup {continent}
                         ELSE selectedContinents)
       ELSE setSelection(selectedCountries \ {country},
                         selectedContinents \ {continent})

ContinentChange ==
    \E continent \in availableContinents(rows) : continentChange(continent)

CountryChange ==
    \E continent \in availableContinents(rows) :
        \E country \in continentCountryMap(rows)[continent] :
            countryChange(continent, country)

PanelNext ==
    \/ Render
    \/ SelectAll
    \/ ClearAll
    \/ ContinentChange
    \/ CountryChange

PanelSpec == PanelInit /\ [][PanelNext]_vars

-----------------------------------------------------------------------------
(* what the claims speak of, stated on the state and not through the
   builder's own steps *)

\* the hierarchy has been built from a non-empty record set
Built == rendered /\ Len(rows) > 0

Children == hierarchyData.children

ContinentKeys == Continents \cup {"Unknown"}

\* the continent a record is grouped under
ContinentOf(r) ==
    IF r["Continent Name"] = "" THEN "Unknown" ELSE r["Continent Name"]

\* the filter predicate of the specification
Qualifies(r) ==
    /\ IsNumber(r["Year"]) /\ r["Year"] = selectedYear
    /\ r["Country Name"] # <<>>
    /\ IsNumber(r["GDP"]) /\ r["GDP"][2] > 0
    /\ selectedCountries = {} \/ r["Country Name"] \in selectedCountries
    /\ selectedContinents = {} \/ r["Continent Name"] \in selectedContinents

\* the filtered records of continent c, as indices into rows
Scope(c) ==
    {i \in 1..Len(rows) : Qualifies(rows[i]) /\ ContinentOf(rows[i]) = c}

RECURSIVE SumGDP(_)
SumGDP(S) ==
    IF S = {} THEN Whole(0)
    ELSE LET i == CHOOSE j \in S : TRUE
         IN Add(rows[i]["GDP"], SumGDP(S \ {i}))

\* the sum of the k smallest GDPs among the records S
RECURSIVE SmallestSum(_, _)
SmallestSum(S, k) ==
    IF k = 0 THEN Whole(0)
    ELSE LET m == CHOOSE i \in S :
                     \A j \in S : ~Lt(rows[j]["GDP"], rows[i]["GDP"])
         IN Add(rows[m]["GDP"], SmallestSum(S \ {m}, k - 1))

HasChildren(node) == "children" \in DOMAIN node

\* the synthesized remainder node: it bears its continent's aggregate label
\* and, alone among the nodes, has no per-capita figure (every row of Files
\* has one)
IsAggregate(node) ==
    /\ node.name = <<"Others (", node.continent, ")">>
    /\ node.gpdpercapita = <<"string", "NaN">>

HasOthersPrefix(name) == Len(name) > 0 /\ name[1] = "Others ("

NodesOf(c) == {k \in DOMAIN Children : Children[k].continent = c}

Aggregates(c) == {k \in NodesOf(c) : IsAggregate(Children[k])}

Individuals(c) == NodesOf(c) \ Aggregates(c)

\* the records of continent c that have an individual node of their own
\* (country names are unique within a file)
Shown(c) ==
    {i \in 1..Len(rows) :
        /\ ContinentOf(rows[i]) = c
        /\ \E k \in Individuals(c) : Children[k].name = rows[i]["Country Name"]}

\* the individual node of record i of continent c
NodeOfRecord(c, i) ==
    CHOOSE k \in Individuals(c) : Children[k].name = rows[i]["Country Name"]

RECURSIVE SumValues(_)
SumValues(nodes) ==
    IF nodes = <<>> THEN Whole(0)
    ELSE Add(Head(nodes).value, SumValues(Tail(nodes)))

\* the area a node takes: its own value, or the sum of its sector slices
Weight(node) ==
    IF HasChildren(node) THEN SumValues(node.children) ELSE node.value

RECURSIVE SumWeights(_)
SumWeights(K) ==
    IF K = {} THEN Whole(0)
    ELSE LET k == CHOOSE j \in K : TRUE
         IN Add(Weight(Children[k]), SumWeights(K \ {k}))

\* the five raw sector percentages of a record, missing or non-numeric
\* ones counted as 0
SectorSum(r) ==
    LET cell(k) == IF Get(r, k)[1] = "number" THEN Get(r, k) ELSE Whole(0)
    IN Add(cell("Agriculture (% GDP)"), Add(cell("Industry (% GDP)"),
       Add(cell("Service (% GDP)"), Add(cell("Export (% GDP)"),
           cell("Import (% GDP)")))))

-----------------------------------------------------------------------------
(* the claims *)

\* C1: for every continent present in the tree, the values of all leaves and
\* sector slices of that continent sum to the GDP of the continent's
\* filtered records.
C1_ContinentSumConserved ==
    Built =>
        \A c \in ContinentKeys :
            NodesOf(c) # {} => SumWeights(NodesOf(c)) = SumGDP(Scope(c))

\* C2: a continent with more than 9 filtered records has exactly one
\* aggregate node "Others (<continent>)", valued at the sum of the GDP of the
\* records beyond the first 9 in descending GDP order; a continent with 9 or
\* fewer has none.
C2_OneAggregatePerLargeContinent ==
    Built =>
        \A c \in ContinentKeys :
            IF Cardinality(Scope(c)) > 9
            THEN /\ Cardinality(Aggregates(c)) = 1
                 /\ \A k \in Aggregates(c) :
                       /\ ~HasChildren(Children[k])
                       /\ Children[k].value =
                             SmallestSum(Scope(c), Cardinality(Scope(c)) - 9)
            ELSE Aggregates(c) = {}

C2_Witness ==
    /\ Built
    /\ Cardinality(Scope("Asia")) > 9
    /\ Aggregates("Asia") # {}
    /\ Scope("Europe") # {}
    /\ Aggregates("Europe") = {}

\* C3: each continent has at most 9 individual country nodes, and each of
\* them stands for a record whose GDP is no less than the GDP of every
\* record of the continent folded into the aggregate remainder.
C3_TopNineAreTheLargest ==
    Built =>
        \A c \in ContinentKeys :
            /\ Cardinality(Individuals(c)) <= 9
            /\ \A k \in Individuals(c) :
                  \E i \in Scope(c) : Children[k].name = rows[i]["Country Name"]
            /\ \A i \in Scope(c) \cap Shown(c), j \in Scope(c) \ Shown(c) :
                  ~Lt(rows[i]["GDP"], rows[j]["GDP"])

C3_Witness ==
    /\ Built
    /\ Cardinality(Individuals("Asia")) = 9
    /\ \E i \in Shown("Asia"), j \in Scope("Asia") \ Shown("Asia") :
          /\ j < i
          /\ Lt(rows[j]["GDP"], rows[i]["GDP"])

\* a continent group node: a label that is a present continent's name, no
\* fields of a country, and the continent's country and aggregate nodes as
\* its children
IsContinentGroup(node) ==
    /\ DOMAIN node = {"name", "children"}
    /\ \E c \in ContinentKeys : node.name = <<c>> /\ Scope(c) # {}

C5_RepresentedIffQualifies ==
    Built =>
        \A c \in ContinentKeys :
            /\ Shown(c) \subseteq Scope(c)
            /\ Cardinality(Shown(c)) = Cardinality(Individuals(c))
            /\ SumWeights(Aggregates(c)) = SumGDP(Scope(c) \ Shown(c))

\* a state where the filter drops a record for each reason and folds others
C5_Witness ==
    /\ Built
    /\ Shown("Asia") # {}
    /\ Scope("Asia") \ Shown("Asia") # {}
    /\ \E i \in 1..Len(rows) : rows[i]["GDP"] = Whole(0)
    /\ \E i \in 1..Len(rows) : rows[i]["Year"] # selectedYear
    /\ \E i \in 1..Len(rows) :
          /\ selectedContinents # {}
          /\ rows[i]["Continent Name"] \notin selectedContinents
    /\ \E i \in 1..Len(rows) :
          /\ selectedCountries # {}
          /\ rows[i]["Country Name"] \notin selectedCountries

C5_WitnessNaN ==
    /\ Built
    /\ Children # <<>>
    /\ \E i \in 1..Len(rows) : IsNaN(rows[i]["GDP"])

\* the filter that names every continent cell, and the one that names every
\* country cell, of the record set: their predicates hold of every record
EveryContinent == {rows[i]["Continent Name"] : i \in 1..Len(rows)}

EveryCountry == {rows[i]["Country Name"] : i \in 1..Len(rows)}

\* C6: an empty continent filter, and likewise an empty country filter, acts
\* as no restriction in buildHierarchy and in the top-5 ranking: the results
\* are those of a filter whose predicate holds of every record, and with
\* both filters empty a record of the year with a name and a positive GDP is
\* never excluded.
C6_EmptyFilterPermitsAll ==
    Built =>
        /\ selectedContinents = {} =>
              /\ hierarchyData =
                    buildHierarchy(rows, selectedYear, selectedCountries, EveryContinent)
              /\ top5Countries =
                    top5CountriesOf(rows, selectedYear, selectedCountries, EveryContinent)
        /\ selectedCountries = {} =>
              /\ hierarchyData =
                    buildHierarchy(rows, selectedYear, EveryCountry, selectedContinents)
              /\ top5Countries =
                    top5CountriesOf(rows, selectedYear, EveryCountry, selectedContinents)
        /\ (selectedContinents = {} /\ selectedCountries = {}) =>
              \A i \in 1..Len(rows) :
                  (/\ rows[i]["Year"] = selectedYear
                   /\ rows[i]["Country Name"] # <<>>
                   /\ IsNumber(rows[i]["GDP"]) /\ rows[i]["GDP"][2] > 0)
                      => /\ NodesOf(ContinentOf(rows[i])) # {}
                         /\ top5Countries # <<>>

C6_Witness ==
    /\ Built
    /\ selectedContinents = {}
    /\ selectedCountries = {}
    /\ Individuals("Unknown") # {}
    /\ Aggregates("Asia") # {}
    /\ Len(top5Countries) = 5

\* C7: the ranking view and buildHierarchy treat exactly the same records as
\* in scope, in every filter state.
C7_SameScopeInBothViews ==
    Built =>
        /\ top5Filtered(rows, selectedYear, selectedCountries, selectedContinents)
              = yearRowsOf(rows, selectedYear, selectedCountries, selectedContinents)
        /\ (top5Countries = <<>>) <=> (Children = <<>>)
        /\ \A e \in {top5Countries[k] : k \in DOMAIN top5Countries} :
              \E i \in Scope(IF e.continent = "" THEN "Unknown" ELSE e.continent) :
                  rows[i]["Country Name"] = e.name

C7_Witness ==
    /\ Built
    /\ selectedContinents # {}
    /\ selectedCountries # {}
    /\ Len(top5Countries) = 5
    /\ Len(Children) > 5
    /\ \E i \in 1..Len(rows) : rows[i]["Year"] = selectedYear /\ ~Qualifies(rows[i])

\* C8: the sector slices of every country node that has them sum to exactly
\* the country's GDP.
C8_SlicesSumToGDP ==
    Built =>
        \A c \in ContinentKeys :
            \A i \in Shown(c) :
                HasChildren(Children[NodeOfRecord(c, i)])
                    => SumValues(Children[NodeOfRecord(c, i)].children) = rows[i]["GDP"]

\* C9: a retained country whose five raw sector percentages sum to 0 or less
\* has no children and is a leaf valued at its GDP.
C9_NoSectorsMeansLeaf ==
    Built =>
        \A c \in ContinentKeys :
            \A i \in Shown(c) :
                ~Lt(Whole(0), SectorSum(rows[i]))
                    => /\ ~HasChildren(Children[NodeOfRecord(c, i)])
                       /\ Children[NodeOfRecord(c, i)].value = rows[i]["GDP"]

C9_Witness ==
    /\ Built
    /\ \E c \in ContinentKeys :
          /\ \E i \in Shown(c) : Lt(SectorSum(rows[i]), Whole(0))
          /\ \E i \in Shown(c) : Lt(Whole(0), SectorSum(rows[i]))

C9_WitnessMissing ==
    /\ Built
    /\ \E c \in ContinentKeys :
          \E i \in Shown(c) :
              /\ SectorSum(rows[i]) = Whole(0)
              /\ Get(rows[i], "Agriculture (% GDP)") = Null

\* C10: an aggregate remainder node is never expanded into sector slices,
\* whatever sector data the folded records carry, and every node whose name
\* begins with "Others (" is a leaf valued at its GDP even when its record's
\* sector percentages have a positive sum.
C10_OthersAreLeaves ==
    Built =>
        \A c \in ContinentKeys :
            /\ \A k \in NodesOf(c) :
                  (IsAggregate(Children[k]) \/ HasOthersPrefix(Children[k].name))
                      => ~HasChildren(Children[k])
            /\ \A k \in Aggregates(c) :
                  Weight(Children[k]) = SumGDP(Scope(c) \ Shown(c))
            /\ \A i \in Shown(c) :
                  HasOthersPrefix(rows[i]["Country Name"])
                      => Weight(Children[NodeOfRecord(c, i)]) = rows[i]["GDP"]

C10_Witness ==
    /\ Built
    /\ \E i \in Scope("Asia") \ Shown("Asia") : Lt(Whole(0), SectorSum(rows[i]))
    /\ Aggregates("Asia") # {}
    /\ \E c \in ContinentKeys :
          \E i \in Shown(c) :
              /\ HasOthersPrefix(rows[i]["Country Name"])
              /\ Lt(Whole(0), SectorSum(rows[i]))

\* the sum of a rate over the records S
RECURSIVE SumRate(_, _)
SumRate(S, key) ==
    IF S = {} THEN Whole(0)
    ELSE LET i == CHOOSE j \in S : TRUE
         IN Add(rows[i][key], SumRate(S \ {i}, key))

\* the arithmetic mean of a rate over the non-empty set of records S
MeanRate(S, key) == Div(SumRate(S, key), Whole(Cardinality(S)))

\* the figure a node shows is a whole number, and no whole number is closer
\* to x (the nodes show every rate without decimals)
ShowsWhole(figure, x) ==
    /\ figure[1] = "fixed" /\ figure[4] = 0
    /\ LET v == Whole(IF figure[2] THEN -figure[3] ELSE figure[3])
       IN /\ ~Lt(Whole(1), Mul(Whole(2), Sub(v, x)))
          /\ ~Lt(Whole(1), Mul(Whole(2), Sub(x, v)))

\* the records of continent c folded into its aggregate
Folded(c) == Scope(c) \ Shown(c)

Passing == {i \in 1..Len(rows) : Qualifies(rows[i])}

\* C12: when no record passes the filter, the builder returns a Root named
\* "World" that has zero children (and the ranking is empty as well).
C12_EmptyFilterGivesEmptyRoot ==
    (Built /\ Passing = {}) =>
        /\ hierarchyData = [name |-> "World", children |-> <<>>]
        /\ top5Countries = <<>>

\* the chosen year has rows and no filter is set, yet no row of the year has
\* a name and a positive GDP
C12_Witness ==
    /\ Built
    /\ Passing = {}
    /\ selectedCountries = {}
    /\ selectedContinents = {}
    /\ \E i \in 1..Len(rows) : rows[i]["Year"] = selectedYear

\* no row of the chosen year at all
C12_WitnessNoRowOfYear ==
    /\ Built
    /\ Passing = {}
    /\ \A i \in 1..Len(rows) : rows[i]["Year"] # selectedYear

\* records of the year with a name and a GDP, all excluded by the filters
C12_WitnessFiltered ==
    /\ Built
    /\ Passing = {}
    /\ \E i \in 1..Len(rows) :
          /\ rows[i]["Year"] = selectedYear
          /\ rows[i]["Country Name"] # <<>>
          /\ Gt(rows[i]["GDP"], Whole(0))

-----------------------------------------------------------------------------
(* the claims about the encoders, under EncoderSpec *)

\* the value handed to the encoder is a number, as such or as the text of one
NumericArg == arg[1] \in {"number", "fixed"}

\* C13: for every numeric unemployment rate u, getOpacity(u) is 0.9 when
\* u <= 4, 0.1 when u >= 15 and the point of the line through (4, 0.9) and
\* (15, 0.1) in between; it lies in [0.1, 0.9] and never increases with u.
C13_OpacityClampedAndLinear ==
    (called = "getOpacity" /\ NumericArg) =>
        LET u == Number(arg)
        IN /\ Le(u, Whole(4)) => result = Num(9, 10)
           /\ Le(Whole(15), u) => result = Num(1, 10)
           /\ (Lt(Whole(4), u) /\ Lt(u, Whole(15))) =>
                 Mul(Sub(result, Num(9, 10)), Whole(15 - 4))
                     = Mul(Sub(u, Whole(4)), Sub(Num(1, 10), Num(9, 10)))
           /\ Le(Num(1, 10), result) /\ Le(result, Num(9, 10))
           /\ \A v \in RateArgs :
                 Le(u, Number(v)) => Le(getOpacity(v), result)

C13_Witness ==
    /\ called = "getOpacity"
    /\ NumericArg
    /\ Lt(Whole(4), Number(arg)) /\ Lt(Number(arg), Whole(15))
    /\ Lt(Num(1, 10), result) /\ Lt(result, Num(9, 10))

C13_WitnessSaturated ==
    /\ called = "getOpacity"
    /\ Lt(Whole(15), Number(arg))
    /\ result = Num(1, 10)

\* C14: every definition of getOpacity returns one and the same fallback
\* constant for null, undefined and NaN.
C14_OneFallbackOpacity ==
    (called \in {"getOpacity", "getOpacity_730"} /\ arg \in {Null, Undefined, NaN}) =>
        /\ IsNumber(result)
        /\ result = getOpacity(Null)
        /\ result = getOpacity_730(Null)

\* min(|i| * 20, 255)
Intensity(i) ==
    LET m == Mul(IF Lt(i, Whole(0)) THEN Sub(Whole(0), i) ELSE i, Whole(20))
    IN IF Lt(m, Whole(255)) THEN m ELSE Whole(255)

\* C15: getInflationColor returns white for null, undefined or NaN, and
\* otherwise three channels in 0..255: red 255 and green and blue
\* 255 - min(|i| * 20, 255) for a negative rate, green 255 and red and blue
\* 255 - min(i * 20, 255) for a non-negative one, so that i and -i get the
\* same intensity.
C15_InflationColorChannels ==
    called = "getInflationColor" =>
        IF ~NumericArg THEN result = <<"#FFFFFF">>
        ELSE LET i == Number(arg)
                 faded == Sub(Whole(255), Intensity(i))
             IN /\ result[1] = "rgb"
                /\ \A ch \in 2..4 :
                      Le(Whole(0), result[ch]) /\ Le(result[ch], Whole(255))
                /\ result = IF Lt(i, Whole(0))
                            THEN <<"rgb", Whole(255), faded, faded>>
                            ELSE <<"rgb", faded, Whole(255), faded>>
                /\ LET mirror == getInflationColor(Sub(Whole(0), i))
                   IN i[2] # 0 =>
                         /\ mirror[3] = result[2] /\ mirror[2] = result[3]
                         /\ mirror[4] = result[4]

\* a deflation strong enough to saturate
C15_Witness ==
    /\ called = "getInflationColor"
    /\ NumericArg
    /\ Lt(Number(arg), Whole(-13))
    /\ result = <<"rgb", Whole(255), Whole(0), Whole(0)>>

C15_WitnessMissing ==
    /\ called = "getInflationColor"
    /\ arg = Null
    /\ result = <<"#FFFFFF">>

\* the amount handed to numberConversion is a number >= 1e6
AtLeastMillion == arg[1] \in {"number", "wide"} /\ limbs(arg)[2] >= 1

\* C16: for every amount v >= 1e6, numberConversion gives the unit "T" when
\* v >= 1e12 (with no upper limit), "B" when 1e9 <= v < 1e12, "M" when
\* 1e6 <= v < 1e9, after the scaled value with two decimals; 2.5e12 gives
\* "2.50T" and 3e9 gives "3.00B".
C16_UnitByThresholdTable ==
    (called = "numberConversion" /\ AtLeastMillion) =>
        LET hi == limbs(arg)[2]
            unit == IF hi >= Million THEN "T" ELSE IF hi >= 1000 THEN "B" ELSE "M"
            p == IF hi >= Million THEN Million ELSE IF hi >= 1000 THEN 1000 ELSE 1
        IN /\ result[1] = "text"
           /\ result[3] = unit
           /\ result[2][1] = "fixed" /\ result[2][4] = 2
           /\ result[2][3] \in (100 * (hi \div p))..(100 * (hi \div p) + 100)
           /\ arg = <<"wide", 2500000, Whole(0)>> =>
                 result = <<"text", <<"fixed", FALSE, 250, 2>>, "T">>
           /\ arg = <<"wide", 3000, Whole(0)>> =>
                 result = <<"text", <<"fixed", FALSE, 300, 2>>, "B">>

\* C17: numberConversion is total: for every value below 1e6 and every
\* value that is no finite number it returns a fallback text, never
\* undefined.
C17_FallbackBelowMillion ==
    (called = "numberConversion" /\ ~AtLeastMillion) =>
        /\ result # Undefined
        /\ result[1] \in {"string", "text"}

-----------------------------------------------------------------------------
(* the claim about the tooltip, under TooltipSpec *)

\* C18: no operation raises an exception for any valid record set: showing
\* the tooltip of any rendered node completes without error for every node
\* value greater than 0, values below 1e6 included.
C18_NoHandlerRaises == raised = ""

-----------------------------------------------------------------------------
(* the claims about the load, under LoadSpec *)

\* the step is the complete callback, or the error callback, of parse i
CompletedStep(i) == pending[i].readable /\ pending' = without(pending, i)

FailedStep(i) == ~pending[i].readable /\ pending' = without(pending, i)

\* C19: the normalizer maps an Unemployment or Inflation Rate cell that is
\* an empty string, a missing value or an unparsable value to null, and only
\* a number to that number; a missing value never becomes 0 or NaN.
C19_MissingRateBecomesNull ==
    [][\A i \in DOMAIN pending :
          CompletedStep(i) =>
              /\ Len(rows') = Len(pending[i].data)
              /\ \A r \in 1..Len(rows') :
                    \A key \in {"Unemployment", "Inflation Rate"} :
                        LET raw == Get(pending[i].data[r], key)
                        IN IF raw[1] = "number"
                           THEN rows'[r][key] = raw
                           ELSE rows'[r][key] = Null]_vars

\* C20: when the load fails (the error callback fires), the record set, the
\* year bounds, the selected year and the selections are left unchanged, no
\* partial hierarchy is built and the failure is surfaced to the user; and
\* the processing flag returns to false: the callback that ends the load,
\* complete or error, leaves it false.
C20_FailedLoad ==
    [][\A i \in DOMAIN pending :
          /\ (CompletedStep(i) \/ FailedStep(i)) => ~processing'
          /\ FailedStep(i) =>
                /\ rows' = rows
                /\ yearBounds' = yearBounds
                /\ selectedYear' = selectedYear
                /\ selectedCountries' = selectedCountries
                /\ selectedContinents' = selectedContinents
                /\ hierarchyData' = hierarchyDataOf(rows, selectedYear,
                                        selectedCountries, selectedContinents)
                /\ "alert" \in notice']_vars

-----------------------------------------------------------------------------
(* the claims about the ranking, the purity of the two views and the
   missing figures, under Spec *)

\* the filtered records of every continent
AllScope == {i \in 1..Len(rows) : Qualifies(rows[i])}

\* the filtered records the ranking lists (country names are unique within
\* a file)
Ranked ==
    {i \in AllScope :
        \E k \in DOMAIN top5Countries :
            /\ top5Countries[k].name = rows[i]["Country Name"]
            /\ top5Countries[k].gdp = rows[i]["GDP"]}

\* C21: the ranking is the filtered records sorted by GDP in non-increasing
\* order and cut to the first 5: it has min(5, number of filtered records)
\* entries, each entry's GDP is no less than the next entry's, and no
\* filtered record outside it has a GDP greater than the last entry's.
C21_RankingIsTopFiveByGDP ==
    Built =>
        /\ Len(top5Countries) =
              IF Cardinality(AllScope) < 5 THEN Cardinality(AllScope) ELSE 5
        /\ Cardinality(Ranked) = Len(top5Countries)
        /\ \A k \in 1..(Len(top5Countries) - 1) :
              ~Lt(top5Countries[k].gdp, top5Countries[k + 1].gdp)
        /\ \A i \in AllScope \ Ranked :
              ~Lt(top5Countries[Len(top5Countries)].gdp, rows[i]["GDP"])

\* more than five filtered records, the listed ones not the first of the file
C21_Witness ==
    /\ Built
    /\ Len(top5Countries) = 5
    /\ \E i \in AllScope \ Ranked, j \in Ranked :
          i < j /\ Lt(rows[i]["GDP"], rows[j]["GDP"])
    /\ \E k \in 1..4 : top5Countries[k].gdp = top5Countries[k + 1].gdp

C21_WitnessFew ==
    /\ Built
    /\ Cardinality(AllScope) \in 1..4
    /\ Len(top5Countries) = Cardinality(AllScope)

-----------------------------------------------------------------------------
(* the claims about the filter panel, under PanelSpec *)

-----------------------------------------------------------------------------
(* the claims about the missing figures of a drawn node, under TooltipSpec *)

\* the file the rows were parsed from (no two of the files parse alike)
FileOfRows == CHOOSE f \in TooltipFiles : parsedData(f) = rows

\* the country node of record i, if it has one
NodesOfRecord(i) ==
    {k \in DOMAIN Children : Children[k].name = rows[i]["Country Name"]}

\* C24: a country whose record has a missing (null) unemployment rate is
\* drawn with the fallback opacity getOpacity returns for null, not with the
\* opacity of a rate of 0: the unemployment stored on the node and passed to
\* getOpacity still tells missing from 0.
C24_MissingUnemploymentDrawnAsFallback ==
    Built =>
        \A i \in 1..Len(rows) :
            Get(FileOfRows[i], "Unemployment") = Null =>
                \A k \in NodesOfRecord(i) :
                    /\ fillOpacity(Children[k]) = fillOpacity([unemployment |-> Null])
                    /\ Children[k].unemployment # toFixed(Whole(0), 0)

\* the columns the tooltip shows after the name and the GDP, in its order
TooltipKeys ==
    <<"GDP Per Capita", "Agriculture (% GDP)", "Service (% GDP)",
      "Industry (% GDP)", "Inflation Rate", "Unemployment">>

\* C30: in the tooltip of a country node, every field (GDP per capita,
\* agriculture, service, industry, inflation rate, unemployment rate) whose
\* source value is missing in the record (null, or the column absent) is
\* shown as "N/A", never as "0", "0.00" or "NaN".
C30_MissingFieldShownAsNA ==
    (Built /\ toolTip.opacity = 1) =>
        \A i \in 1..Len(rows) :
            rows[i]["Country Name"] = toolTip.html[1] =>
                \A f \in 1..Len(TooltipKeys) :
                    Get(FileOfRows[i], TooltipKeys[f]) \in {Null, Undefined}
                        => toolTip.html[2 + f] = <<"string", "N/A">>

-----------------------------------------------------------------------------
(* the claims about the values of the nodes and about the ranked records,
   under Spec *)

\* the raw percentage of a sector of a record, missing or non-numeric ones
\* counted as 0
SectorCell(r, key) == IF Get(r, key)[1] = "number" THEN Get(r, key) ELSE Whole(0)

\* the sectors of a record whose share of the five is above 1e-6, that is
\* above 0.0001 percent
Sizable(r) ==
    {key \in {SectorKeys[s] : s \in 1..Len(SectorKeys)} :
        /\ Lt(Whole(0), SectorSum(r))
        /\ Lt(Num(1, 10000),
              Mul(Whole(100), Div(SectorCell(r, key), SectorSum(r))))}

\* C25: every node of the tree that carries a value carries a value greater
\* than 0: a sector whose normalized share is below 1e-6 of the total is
\* discarded and never appears as a zero-valued slice, and every country
\* leaf and every aggregate remainder has a positive value.
C25_EveryValueIsPositive ==
    Built =>
        /\ \A k \in DOMAIN Children :
              IF HasChildren(Children[k])
              THEN \A s \in DOMAIN Children[k].children :
                      Lt(Whole(0), Children[k].children[s].value)
              ELSE Lt(Whole(0), Children[k].value)
        /\ \A c \in ContinentKeys :
              \A i \in Shown(c) :
                  LET node == Children[NodeOfRecord(c, i)]
                  IN HasChildren(node) =>
                        {node.children[s].name : s \in DOMAIN node.children}
                            = Sizable(rows[i])

\* a country drawn with slices has a sector below the threshold, and
\* another has a sector of 0 or less; a leaf and an aggregate are there too
C25_Witness ==
    /\ Built
    /\ \E c \in ContinentKeys :
          \E i \in Shown(c) :
              /\ HasChildren(Children[NodeOfRecord(c, i)])
              /\ \E s \in 1..Len(SectorKeys) :
                    /\ Lt(Whole(0), SectorCell(rows[i], SectorKeys[s]))
                    /\ SectorKeys[s] \notin Sizable(rows[i])
    /\ \E c \in ContinentKeys :
          \E i \in Shown(c) :
              /\ HasChildren(Children[NodeOfRecord(c, i)])
              /\ \E s \in 1..Len(SectorKeys) :
                    SectorCell(rows[i], SectorKeys[s]) = Whole(0)
    /\ Aggregates("Asia") # {}

\* C29: for every filter state, every record listed in the top-5 ranking
\* appears in the hierarchy built from the same filter state as an
\* individual country node, never only inside an aggregate "Others"
\* remainder, also when GDP values are tied.
C29_RankedAreDrawnIndividually ==
    Built =>
        \A e \in {top5Countries[k] : k \in DOMAIN top5Countries} :
            \E i \in AllScope :
                /\ rows[i]["Country Name"] = e.name
                /\ rows[i]["Continent Name"] = e.continent
                /\ rows[i]["GDP"] = e.gdp
                /\ i \in Shown(ContinentOf(rows[i]))

\* a continent has an aggregate, the ranking is full, and the last record
\* listed has the GDP of a record that is not listed
C29_Witness ==
    /\ Built
    /\ Len(top5Countries) = 5
    /\ Aggregates("Asia") # {}
    /\ \E i \in AllScope \ Ranked : rows[i]["GDP"] = top5Countries[5].gdp
    /\ \E e \in {top5Countries[k] : k \in DOMAIN top5Countries} :
          e.continent = "Asia"

-----------------------------------------------------------------------------
(* the claims about the two selections, under PanelSpec *)

\* C26: after any sequence of continent-checkbox, country-checkbox, Select
\* All and Clear All events (every country belonging to exactly one
\* continent), a continent is in selectedContinents if and only if every
\* country of that continent is in selectedCountries.
C26_ContinentSelectedIffAllItsCountries ==
    rendered =>
        \A continent \in availableContinents(rows) :
            continent \in selectedContinents
                <=> continentCountryMap(rows)[continent] \subseteq selectedCountries

\* one continent is selected with all its countries, another has some of
\* its countries selected and is not
C26_Witness ==
    /\ Built
    /\ \A c1, c2 \in availableContinents(rows) :
          c1 # c2 => continentCountryMap(rows)[c1] \cap continentCountryMap(rows)[c2] = {}
    /\ \E c1, c2 \in availableContinents(rows) :
          /\ c1 \in selectedContinents
          /\ continentCountryMap(rows)[c1] \subseteq selectedCountries
          /\ c2 \notin selectedContinents
          /\ continentCountryMap(rows)[c2] \cap selectedCountries # {}
          /\ ~(continentCountryMap(rows)[c2] \subseteq selectedCountries)

\* C27: after any sequence of continent-checkbox and country-checkbox
\* events, every country whose box is checked (it is in selectedCountries)
\* and that has a record of the selected year with GDP > 0 is in scope for
\* the hierarchy and the ranking: it is never filtered out because another
\* continent is selected.
C27_CheckedCountryIsInScope ==
    Built =>
        \A i \in 1..Len(rows) :
            (/\ rows[i]["Country Name"] \in selectedCountries
             /\ rows[i]["Year"] = selectedYear
             /\ Lt(Whole(0), rows[i]["GDP"]))
                => /\ NodesOfRecord(i) # {}
                   /\ \E j \in DOMAIN top5Filtered(rows, selectedYear,
                                          selectedCountries, selectedContinents) :
                         top5Filtered(rows, selectedYear, selectedCountries,
                                      selectedContinents)[j] = rows[i]

\* the selections Select All leaves
AllListedCountries ==
    UNION {continentCountryMap(rows)[c] : c \in availableContinents(rows)}

\* C28: pressing Select All and pressing Clear All lead to the same set of
\* in-scope records for every record set and year, record sets with records
\* that have a country name but no continent (grouped under "Unknown")
\* included: in the state Select All leaves, the records in scope, the tree
\* and the ranking are those of the state Clear All leaves.
C28_SelectAllScopesAsClearAll ==
    (/\ Built
     /\ selectedCountries = AllListedCountries
     /\ selectedContinents = availableContinents(rows))
        => /\ yearRowsOf(rows, selectedYear, selectedCountries, selectedContinents)
                 = yearRowsOf(rows, selectedYear, {}, {})
           /\ hierarchyData = hierarchyDataOf(rows, selectedYear, {}, {})
           /\ top5Countries = top5CountriesOf(rows, selectedYear, {}, {})

=============================================================================
